---- MODULE Spec2Model ----
(***************************************************************************)
(* ModelerSearchEnhancer (modeler_search_enhancer.py): a polling timer      *)
(* scans the application's widgets, classifies modeler dialogs and wires    *)
(* type-ahead filtering onto their combo boxes.                             *)
(*                                                                          *)
(* Text is modelled as a sequence of one-character strings, so that         *)
(* lower(), strip(), split() and the substring test are computed.           *)
(***************************************************************************)
EXTENDS Integers, Sequences, FiniteSets, TLC

VARIABLES
    window_timer,         \* "none" (no attribute yet), "active", "stopped"
    actions,              \* len(self.actions)
    monitored_widgets,    \* self.monitored_widgets
    enhanced_combos,      \* self.enhanced_combos
    is_updating,          \* self._is_updating (one attribute on the add-on)
    last_search_text,     \* self._last_search_text (one attribute on the add-on)
    filter_timer,         \* self._filter_timer: [owner, active], owner = the combo
                          \* whose safe_filter its timeout is connected to
    shown,                \* widget -> not explicitly hidden
    items,                \* combo -> its current item texts
    search_enhanced,      \* combo -> hasattr(combo_box, '_search_enhanced')
    enhance_calls,        \* combo -> number of enhanceComboBox invocations
    wired,                \* combo -> number of times the handlers were connected
    original_items,       \* combo -> original_items captured by its closures
    completer_model,      \* combo -> string list of its completer's model
    popup,                \* combo -> completer.popup().isVisible()
    text,                 \* combo -> line_edit.text()
    current_index,        \* combo -> combo_box.currentIndex()
    last,                 \* record of the last operation that ran (history)
    prev_poll_monitored,  \* monitored_widgets as the last completed poll left it (history)
    timer_started_by,     \* combo whose text change last started the debounce timer (history)
    signals               \* number of combo box signals the host has emitted so far

vars == <<window_timer, actions, monitored_widgets, enhanced_combos, is_updating,
          last_search_text, filter_timer, shown, items, search_enhanced,
          enhance_calls, wired, original_items, completer_model, popup, text,
          current_index, last, prev_poll_monitored, timer_started_by, signals>>

(***************************************************************************)
(* Bounds of the model.                                                     *)
(***************************************************************************)
MaxActions == 2      \* initGui is called at most this many times
MaxFaults == 1       \* exceptions injected into one poll
MaxCalls == 2        \* enhance_calls and wired saturate here ("twice or more")
MaxSignals == 4      \* signals the host emits from the combo boxes in one run

(***************************************************************************)
(* str methods used by the add-on.                                          *)
(***************************************************************************)
LowerMap ==
    [ch \in {"A","B","C","D","E","F","G","H","I","J","K","L","M","N","O","P","Q",
             "R","S","T","U","V","W","X","Y","Z"} |->
        CASE ch = "A" -> "a" [] ch = "B" -> "b" [] ch = "C" -> "c" [] ch = "D" -> "d"
          [] ch = "E" -> "e" [] ch = "F" -> "f" [] ch = "G" -> "g" [] ch = "H" -> "h"
          [] ch = "I" -> "i" [] ch = "J" -> "j" [] ch = "K" -> "k" [] ch = "L" -> "l"
          [] ch = "M" -> "m" [] ch = "N" -> "n" [] ch = "O" -> "o" [] ch = "P" -> "p"
          [] ch = "Q" -> "q" [] ch = "R" -> "r" [] ch = "S" -> "s" [] ch = "T" -> "t"
          [] ch = "U" -> "u" [] ch = "V" -> "v" [] ch = "W" -> "w" [] ch = "X" -> "x"
          [] ch = "Y" -> "y" [] ch = "Z" -> "z"]

\* str.lower()
Lower(s) == [i \in 1..Len(s) |-> IF s[i] \in DOMAIN LowerMap THEN LowerMap[s[i]] ELSE s[i]]

\* sub in s
Contains(sub, s) == \E i \in 0..(Len(s) - Len(sub)) : SubSeq(s, i + 1, i + Len(sub)) = sub

IsSpace(ch) == ch = " "

\* str.strip()
RECURSIVE LStrip(_)
LStrip(s) == IF s # <<>> /\ IsSpace(Head(s)) THEN LStrip(Tail(s)) ELSE s
RECURSIVE RStrip(_)
RStrip(s) == IF s # <<>> /\ IsSpace(s[Len(s)]) THEN RStrip(SubSeq(s, 1, Len(s) - 1)) ELSE s
Strip(s) == RStrip(LStrip(s))

\* str.split(): the maximal runs of non-whitespace characters
RECURSIVE WordLen(_)
WordLen(s) == IF s = <<>> \/ IsSpace(Head(s)) THEN 0 ELSE 1 + WordLen(Tail(s))
RECURSIVE Split(_)
Split(s) ==
    LET t == LStrip(s)
        n == WordLen(t)
    IN  IF t = <<>> THEN <<>> ELSE <<SubSeq(t, 1, n)>> \o Split(SubSeq(t, n + 1, Len(t)))

\* str.isdigit()
IsDigit(s) == s # <<>> /\ \A i \in 1..Len(s) : s[i] \in {"0","1","2","3","4","5","6","7","8","9"}

Range(s) == {s[i] : i \in 1..Len(s)}

\* any(keyword in s for keyword in keywords)
AnyIn(keywords, s) == \E k \in keywords : Contains(k, s)

(***************************************************************************)
(* The host application's widget tree: what QgsApplication.allWidgets(),    *)
(* findChildren(), windowTitle(), objectName() and parent() answer.         *)
(*   d1  a QDialog titled "Utilizzo del risultato", holding f2, c1 and c2  *)
(*   f2  a frame inside d1 named "ModelerFrame", holding c1                *)
(*   w3  the always visible window titled "Tabella", holding no combo box  *)
(***************************************************************************)
Widgets == {"d1", "f2", "w3"}
Combos == {"c1", "c2"}
AllWidgets == <<"d1", "f2", "w3">>
\* the widgets the host shows and hides
Closable == {"d1", "f2"}

WindowTitle(w) ==
    CASE w = "d1" -> <<"U", "t", "i", "l", "i", "z", "z", "o", " ", "d", "e", "l", " ", "r", "i", "s", "u", "l", "t", "a", "t", "o">>
      [] w = "f2" -> <<>>
      [] w = "w3" -> <<"T", "a", "b", "e", "l", "l", "a">>

ObjectName(w) ==
    CASE w = "d1" -> <<"I", "n", "p", "u", "t", "D", "i", "a", "l", "o", "g">>
      [] w = "f2" -> <<"M", "o", "d", "e", "l", "e", "r", "F", "r", "a", "m", "e">>
      [] w = "w3" -> <<>>

IsQDialog(w) == w = "d1"

\* widget.findChildren(QComboBox): recursive, in child order
FindChildrenCombos(w) ==
    CASE w = "d1" -> <<"c1", "c2">>
      [] w = "f2" -> <<"c1">>
      [] w = "w3" -> <<>>

\* the widget a widget sits in ("" for a top-level window)
ParentWidget(w) == IF w = "f2" THEN "d1" ELSE ""

\* combo_box.parent()
ComboParent(c) == IF c = "c1" THEN "f2" ELSE "d1"

\* [label.text() for label in parent.findChildren(QLabel)]
LabelTexts(w) ==
    CASE w = "d1" -> << <<"L", "a", "y", "e", "r">>, <<"U", "s", "e", " ", "r", "e", "s", "u", "l", "t">>, <<"I", "n", "p", "u", "t", " ", "l", "a", "y", "e", "r">> >>
      [] w = "f2" -> << <<"I", "n", "p", "u", "t", " ", "l", "a", "y", "e", "r">> >>
      [] w = "w3" -> << <<"P", "a", "r", "a", "m", "e", "t", "r", "i">> >>

\* item texts a combo box can hold
Item1 == <<"R", "e", "s", "u", "l", "t", " ", "A", "b", " ", "c", "d">>
Item2 == <<"A", "b">>
Item3 == <<"c", "d", " ", "a", "b">>
NoItems == <<>>
TwoItems == <<Item1, Item2>>
FullItems == <<Item1, Item2, Item3>>
ItemLists == {NoItems, TwoItems, FullItems}

\* texts a user types into a line edit
TypedTexts == { <<>>, <<" ", "A", "B", " ", " ", "c", "d", " ">>, <<"z", "z">> }

\* the widgets a widget sits in, up to its window
RECURSIVE Ancestors(_)
Ancestors(w) ==
    IF ParentWidget(w) = "" THEN {} ELSE {ParentWidget(w)} \cup Ancestors(ParentWidget(w))

\* widget.isVisible(): not hidden, and no ancestor hidden
IsVisible(w) == shown[w] /\ \A a \in Ancestors(w) : shown[a]

(***************************************************************************)
(* Exceptions: a poll is run with a set F of fault points, each a call of   *)
(* the host toolkit that raises during that poll.                           *)
(*   <<"classify", w>>      inside isModelerWidget(w)'s try block           *)
(*   <<"findChildren", w>>  widget.findChildren in enhanceModelerWidget(w)  *)
(*   <<"count", c>>         combo_box.count() in enhanceModelerWidget's test *)
(*   <<"should", c>>        inside shouldEnhanceComboBox(c)'s try block     *)
(*   <<"enhance", c>>       inside enhanceComboBox(c)'s try block, at entry *)
(***************************************************************************)
FaultPoints == ({"classify", "findChildren"} \X Widgets) \cup
               ({"count", "should", "enhance"} \X Combos)
FaultSets == {F \in SUBSET FaultPoints : Cardinality(F) <= MaxFaults}

\* the try block of isModelerWidget
ModelerIndicators(w) ==
         LET window_title == Lower(WindowTitle(w))
             object_name == Lower(ObjectName(w))
             hasCombos == Len(FindChildrenCombos(w)) > 0
         IN  \/ (Contains(<<"t", "a", "b", "e", "l", "l", "a">>, window_title) \/ Contains(<<"s", "e", "l", "e", "z", "i", "o", "n", "e">>, window_title))
                /\ hasCombos
             \/ Contains(<<"m", "o", "d", "e", "l", "e", "r">>, object_name) /\ hasCombos
             \/ IsQDialog(w) /\ hasCombos
                /\ Contains(<<"u", "t", "i", "l", "i", "z", "z", "o", " ", "d", "e", "l", " ", "r", "i", "s", "u", "l", "t", "a", "t", "o">>, Lower(window_title))

\* the widget tree's titles and names are fixed: computed once per widget
ModelerIndicatorsOf == [w \in Widgets |-> ModelerIndicators(w)]

\* isModelerWidget(widget)
IsModelerWidget(w, F) ==
    IF <<"classify", w>> \in F
    THEN FALSE                                   \* except Exception: return False
    ELSE ModelerIndicatorsOf[w]

InputContextKeywords ==
    { <<"l", "a", "y", "e", "r", " ", "i", "n", " ", "i", "n", "g", "r", "e", "s", "s", "o">>, <<"i", "n", "p", "u", "t", " ", "l", "a", "y", "e", "r">>, <<"l", "a", "y", "e", "r", " ", "i", "n", "p", "u", "t">>,
      <<"u", "t", "i", "l", "i", "z", "z", "o", " ", "d", "e", "l", " ", "r", "i", "s", "u", "l", "t", "a", "t", "o">>, <<"u", "s", "e", " ", "r", "e", "s", "u", "l", "t">>, <<"a", "l", "g", "o", "r", "i", "t", "h", "m", " ", "r", "e", "s", "u", "l", "t">>,
      <<"c", "a", "m", "p", "o", " ", "r", "i", "m", "a", "n", "e", "n", "t", "e">>, <<"r", "e", "m", "a", "i", "n", "i", "n", "g", " ", "f", "i", "e", "l", "d">>,
      <<"s", "e", "l", "e", "z", "i", "o", "n", "e">>, <<"s", "e", "l", "e", "c", "t", "i", "o", "n">>, <<"c", "h", "o", "o", "s", "e">>, <<"s", "e", "l", "e", "c", "t">> }

ExcludeContextKeywords ==
    { <<"d", "e", "p", "e", "n", "d", "e", "n", "c", "i", "e", "s">>, <<"d", "i", "p", "e", "n", "d", "e", "n", "z", "e">>, <<"p", "a", "r", "a", "m", "e", "t", "e", "r", "s">>, <<"p", "a", "r", "a", "m", "e", "t", "r", "i">>,
      <<"c", "o", "n", "f", "i", "g", "u", "r", "a", "t", "i", "o", "n">>, <<"c", "o", "n", "f", "i", "g", "u", "r", "a", "z", "i", "o", "n", "e">>, <<"s", "e", "t", "t", "i", "n", "g", "s">>, <<"i", "m", "p", "o", "s", "t", "a", "z", "i", "o", "n", "i">> }

\* the label loop of analyzeParentContext
RECURSIVE ScanLabels(_)
ScanLabels(labels) ==
    IF labels = <<>> THEN TRUE
    ELSE LET label_text == Lower(Head(labels))
         IN  IF AnyIn(ExcludeContextKeywords, label_text) THEN FALSE
             ELSE IF AnyIn(InputContextKeywords, label_text) THEN TRUE
             ELSE ScanLabels(Tail(labels))

\* analyzeParentContext(combo_box)
AnalyzeParentContext(c) ==
    IF ComboParent(c) = "" THEN FALSE ELSE ScanLabels(LabelTexts(ComboParent(c)))

\* sample_items of shouldEnhanceComboBox: the first three item texts, lowered,
\* empty ones left out
SampleItems(L) ==
    LET n == IF Len(L) < 3 THEN Len(L) ELSE 3
        nonEmpty(s) == s # <<>>
    IN  [i \in 1..Len(SelectSeq(SubSeq(L, 1, n), nonEmpty)) |->
            Lower(SelectSeq(SubSeq(L, 1, n), nonEmpty)[i])]

\* the body of shouldEnhanceComboBox, for a combo box c holding the items L
ShouldEnhanceItems(L, c) ==
    IF Len(L) = 0 THEN FALSE
    ELSE LET sample_items == Range(SampleItems(L))
             modeler_input_indicators ==
                 \/ \E item \in sample_items : Contains(<<"\"">>, item)
                 \/ \E item \in sample_items : Contains(<<"d", "a", "l", "l", "'", "a", "l", "g", "o", "r", "i", "t", "m", "o">>, item)
                 \/ \E item \in sample_items : Contains(<<"f", "r", "o", "m", " ", "a", "l", "g", "o", "r", "i", "t", "h", "m">>, item)
                 \/ \E item \in sample_items : Contains(<<"o", "u", "t", "p", "u", "t">>, item)
                 \/ \E item \in sample_items : Contains(<<"r", "e", "s", "u", "l", "t">>, item)
                 \/ \E item \in sample_items :
                        \/ Contains(<<"e", "s", "t", "r", "a", "t", "t", "o">>, item)
                        \/ Contains(<<"e", "l", "e", "m", "e", "n", "t", "i">>, item)
                        \/ Contains(<<"r", "i", "s", "u", "l", "t", "a", "t", "o">>, item)
             exclude_indicators ==
                 \/ Len(L) < 3
                 \/ \A item \in sample_items :
                        IsDigit(item) \/ item \in { <<"t", "r", "u", "e">>, <<"f", "a", "l", "s", "e">>, <<"y", "e", "s">>, <<"n", "o">> }
                 \/ \A item \in sample_items : Len(item) < 10
                 \/ /\ Len(L) = 1
                    /\ SampleItems(L) # <<>>
                    /\ \/ Contains(<<"d", "i", "p", "e", "n", "d", "e", "n", "z", "e">>, SampleItems(L)[1])
                       \/ Contains(<<"d", "e", "p", "e", "n", "d", "e", "n", "c", "i", "e", "s">>, SampleItems(L)[1])
         IN  modeler_input_indicators /\ ~exclude_indicators /\ AnalyzeParentContext(c)

\* computed once per combo box and item list
ShouldEnhanceItemsOf == [c \in Combos |-> [L \in ItemLists |-> ShouldEnhanceItems(L, c)]]

\* shouldEnhanceComboBox(combo_box)
ShouldEnhanceComboBox(c, F) ==
    IF <<"should", c>> \in F
    THEN FALSE                                   \* except Exception: return False
    ELSE ShouldEnhanceItemsOf[c][items[c]]

Saturate(n) == IF n < MaxCalls THEN n + 1 ELSE MaxCalls

(***************************************************************************)
(* The add-on's state as the poll threads it through its calls; exc is     *)
(* TRUE while an exception is propagating, raised once any was raised.      *)
(***************************************************************************)
PluginState ==
    [enhanced_combos |-> enhanced_combos, search_enhanced |-> search_enhanced,
     enhance_calls |-> enhance_calls, wired |-> wired,
     original_items |-> original_items, completer_model |-> completer_model,
     is_updating |-> is_updating, last_search_text |-> last_search_text,
     filter_timer |-> filter_timer, exc |-> FALSE, raised |-> FALSE]

\* enhanceComboBox(combo_box): capture the items, reset the shared guard and
\* search text, build the completer, rebind self._filter_timer to a new timer
\* whose timeout runs this combo box's safe_filter, and connect the handlers
EnhanceComboBox(st, c, F) ==
    IF <<"enhance", c>> \in F
    THEN [st EXCEPT !.enhance_calls[c] = Saturate(@),      \* except: return False
                    !.raised = TRUE]
    ELSE [st EXCEPT !.enhance_calls[c] = Saturate(@),
                    !.original_items[c] = items[c],
                    !.is_updating = FALSE,
                    !.last_search_text = <<>>,
                    !.completer_model[c] = items[c],
                    !.filter_timer = [owner |-> c, active |-> FALSE],
                    !.wired[c] = Saturate(@)]

\* EnhanceTest without "not hasattr(combo_box, '_search_enhanced')"
EnhanceTest_NoAttributeTest(st, c, F) ==
    IF c \in st.enhanced_combos THEN "no"
    ELSE IF <<"count", c>> \in F THEN "raise"
    ELSE IF ~(Len(items[c]) > 1) THEN "no"
    ELSE IF <<"should", c>> \in F THEN "swallowed"
    ELSE IF ShouldEnhanceComboBox(c, F) THEN "yes" ELSE "no"

\* the test of enhanceModelerWidget's loop: "yes", "no", "raise" when count()
\* raised, "swallowed" when shouldEnhanceComboBox caught an exception (and so
\* answered False)
EnhanceTest(st, c, F) ==
    IF c \in st.enhanced_combos THEN "no"
    ELSE IF <<"count", c>> \in F THEN "raise"
    ELSE IF ~(Len(items[c]) > 1) THEN "no"
    ELSE IF st.search_enhanced[c] THEN "no"
    ELSE IF <<"should", c>> \in F THEN "swallowed"
    ELSE IF ShouldEnhanceComboBox(c, F) THEN "yes" ELSE "no"

\* the loop of enhanceModelerWidget over combo_boxes
RECURSIVE ScanCombos(_, _, _)
ScanCombos(st, combo_boxes, F) ==
    IF combo_boxes = <<>> \/ st.exc THEN st
    ELSE LET c == Head(combo_boxes)
             test == EnhanceTest(st, c, F)
         IN  IF test = "raise" THEN [st EXCEPT !.exc = TRUE, !.raised = TRUE]
             ELSE IF test = "no" THEN ScanCombos(st, Tail(combo_boxes), F)
             ELSE IF test = "swallowed"
                  THEN ScanCombos([st EXCEPT !.raised = TRUE], Tail(combo_boxes), F)
             ELSE LET e == EnhanceComboBox(st, c, F)
                  IN  ScanCombos([e EXCEPT !.enhanced_combos = @ \cup {c},
                                           !.search_enhanced[c] = TRUE],
                                 Tail(combo_boxes), F)

\* EnhanceModelerWidgetTry looking at the first combo box only
EnhanceModelerWidgetTry_FirstComboOnly(st, w, F) ==
    IF <<"findChildren", w>> \in F
    THEN [st EXCEPT !.exc = TRUE, !.raised = TRUE]
    ELSE ScanCombos(st, SubSeq(FindChildrenCombos(w), 1, 1), F)

\* the try block of enhanceModelerWidget
EnhanceModelerWidgetTry(st, w, F) ==
    IF <<"findChildren", w>> \in F
    THEN [st EXCEPT !.exc = TRUE, !.raised = TRUE]
    ELSE ScanCombos(st, FindChildrenCombos(w), F)

\* EnhanceModelerWidget without its except clause
EnhanceModelerWidget_NoExcept(st, w, F) == EnhanceModelerWidgetTry(st, w, F)

\* enhanceModelerWidget(widget): except Exception: pass
EnhanceModelerWidget(st, w, F) == [EnhanceModelerWidgetTry(st, w, F) EXCEPT !.exc = FALSE]

\* NotMonitored scanning every modeler widget on every poll
NotMonitored_Always(w) == TRUE

\* widget not in self.monitored_widgets
NotMonitored(w) == w \notin monitored_widgets

\* the loop of checkForModelerWidgets over allWidgets(); acc carries the add-on's
\* state st, current_widgets, and which widgets were reached and scanned
RECURSIVE ScanWidgets(_, _, _)
ScanWidgets(acc, widgets, F) ==
    IF widgets = <<>> \/ acc.st.exc THEN acc
    ELSE LET w == Head(widgets)
             reached == [acc EXCEPT !.visited = @ \cup {w}]
         IN  IF IsVisible(w) /\ IsModelerWidget(w, F)
             THEN LET seen == [reached EXCEPT !.current_widgets = @ \cup {w}]
                  IN  IF NotMonitored(w)
                      THEN ScanWidgets([seen EXCEPT !.st = EnhanceModelerWidget(acc.st, w, F),
                                                    !.scanned = @ \cup {w}],
                                       Tail(widgets), F)
                      ELSE ScanWidgets(seen, Tail(widgets), F)
             ELSE ScanWidgets([reached EXCEPT !.st.raised =
                                   @ \/ (IsVisible(w) /\ <<"classify", w>> \in F)],
                              Tail(widgets), F)

\* checkForModelerWidgets(): the loop, then self.monitored_widgets = current_widgets,
\* which is not reached when an exception leaves the loop
CheckForModelerWidgets(F) ==
    LET r == ScanWidgets([st |-> PluginState, current_widgets |-> {},
                          visited |-> {}, scanned |-> {}], AllWidgets, F)
    IN  [st |-> r.st, current_widgets |-> r.current_widgets,
         visited |-> r.visited, scanned |-> r.scanned,
         monitored_widgets |-> IF r.st.exc THEN monitored_widgets ELSE r.current_widgets]

(***************************************************************************)
(* The closures enhanceComboBox connects to a combo box's signals.          *)
(***************************************************************************)
\* all(term in item_lower for term in search_terms)
MatchesAllTerms(item, search_terms) ==
    \A i \in 1..Len(search_terms) : Contains(search_terms[i], Lower(item))

\* filtered_items of safe_filter
FilterItems(orig, current_text) ==
    LET search_terms == Split(Lower(current_text))
        keep(item) == MatchesAllTerms(item, search_terms)
    IN  SelectSeq(orig, keep)

\* safe_filter() of combo box c: what it leaves in last_search_text, in c's
\* completer model and in c's popup
SafeFilter(c) ==
    LET current_text == Strip(text[c])
        unchanged == [last_search_text |-> last_search_text,
                      model |-> completer_model[c], popup |-> popup[c]]
        filtered_items == FilterItems(original_items[c], current_text)
    IN  IF is_updating THEN unchanged
        ELSE IF current_text = last_search_text THEN unchanged
        ELSE IF current_text # <<>>
             THEN IF filtered_items # <<>>
                  THEN [last_search_text |-> current_text, model |-> filtered_items,
                        popup |-> TRUE]
                  ELSE [last_search_text |-> current_text, model |-> completer_model[c],
                        popup |-> FALSE]
             ELSE [last_search_text |-> current_text, model |-> original_items[c],
                   popup |-> popup[c]]

\* on_text_changed(), run with self._is_updating = updating: the timer it leaves
OnTextChanged(updating) ==
    IF ~updating THEN [filter_timer EXCEPT !.active = TRUE] ELSE filter_timer

\* original_items.index(text) (0-based)
IndexOf(seq, x) == (CHOOSE i \in 1..Len(seq) : seq[i] = x /\ \A j \in 1..(i - 1) : seq[j] # x) - 1

(***************************************************************************)
(* Initial state: the add-on constructed (__init__), the host application   *)
(* in any of its states.                                                    *)
(***************************************************************************)
Init ==
    /\ window_timer = "none"
    /\ actions = 0
    /\ monitored_widgets = {}
    /\ enhanced_combos = {}
    /\ is_updating = FALSE
    /\ last_search_text = <<>>
    /\ filter_timer = [owner |-> "", active |-> FALSE]
    /\ shown \in {s \in [Widgets -> BOOLEAN] : \A w \in Widgets \ Closable : s[w]}
    /\ items \in [Combos -> ItemLists]
    /\ search_enhanced = [c \in Combos |-> FALSE]
    /\ enhance_calls = [c \in Combos |-> 0]
    /\ wired = [c \in Combos |-> 0]
    /\ original_items = [c \in Combos |-> <<>>]
    /\ completer_model = [c \in Combos |-> <<>>]
    /\ popup = [c \in Combos |-> FALSE]
    /\ text = [c \in Combos |-> <<>>]
    /\ current_index = [c \in Combos |-> IF items[c] = <<>> THEN -1 ELSE 0]
    /\ last = [op |-> "init"]
    /\ prev_poll_monitored = {}
    /\ timer_started_by = ""
    /\ signals = 0

filterVars == <<popup, text, current_index, timer_started_by, signals>>
hostVars == <<shown, items>>
pollVars == <<monitored_widgets, enhanced_combos, search_enhanced, enhance_calls, wired,
              original_items, prev_poll_monitored>>

\* initGui(): setupModelerMonitoring() binds a new running timer; one more action
InitGui ==
    /\ actions < MaxActions
    /\ window_timer' = "active"
    /\ actions' = actions + 1
    /\ last' = [op |-> "initGui"]
    /\ UNCHANGED <<is_updating, last_search_text, filter_timer, completer_model,
                   pollVars, hostVars, filterVars>>

\* Unload leaving the poll timer running
Unload_TimerLeftRunning ==
    /\ enhanced_combos' = {}
    /\ monitored_widgets' = {}
    /\ last' = [op |-> "unload"]
    /\ UNCHANGED <<window_timer, actions, is_updating, last_search_text, filter_timer,
                   completer_model, search_enhanced, enhance_calls, wired, original_items,
                   prev_poll_monitored, hostVars, filterVars>>

\* unload(): stop the poll timer if there is one, clear both sets
Unload ==
    /\ window_timer' = IF window_timer = "none" THEN "none" ELSE "stopped"
    /\ enhanced_combos' = {}
    /\ monitored_widgets' = {}
    /\ last' = [op |-> "unload"]
    /\ UNCHANGED <<actions, is_updating, last_search_text, filter_timer, completer_model,
                   search_enhanced, enhance_calls, wired, original_items,
                   prev_poll_monitored, hostVars, filterVars>>

\* window_timer.timeout -> checkForModelerWidgets(), the toolkit raising at the
\* fault points of one of the sets in Fs
PollRaising(Fs) ==
    /\ window_timer = "active"
    /\ \E F \in Fs :
          \E r \in {CheckForModelerWidgets(F)} :
              /\ monitored_widgets' = r.monitored_widgets
              /\ enhanced_combos' = r.st.enhanced_combos
              /\ search_enhanced' = r.st.search_enhanced
              /\ enhance_calls' = r.st.enhance_calls
              /\ wired' = r.st.wired
              /\ original_items' = r.st.original_items
              /\ completer_model' = r.st.completer_model
              /\ is_updating' = r.st.is_updating
              /\ last_search_text' = r.st.last_search_text
              /\ filter_timer' = r.st.filter_timer
              /\ prev_poll_monitored' = r.monitored_widgets
              /\ last' = [op |-> "poll", faulted |-> r.st.raised, propagated |-> r.st.exc,
                          visited |-> r.visited, collected |-> r.current_widgets,
                          scanned |-> r.scanned,
                          enhanced |-> {c \in Combos :
                                          r.st.enhance_calls[c] # enhance_calls[c]}]
    /\ UNCHANGED <<window_timer, actions, hostVars, filterVars>>

Poll == PollRaising(FaultSets)

\* a poll during which the toolkit raises nothing
QuietPoll == PollRaising({{}})

\* the host shows or hides a widget
Show(w) ==
    /\ ~shown[w]
    /\ shown' = [shown EXCEPT ![w] = TRUE]
    /\ last' = [op |-> "host"]
    /\ UNCHANGED <<window_timer, actions, is_updating, last_search_text, filter_timer,
                   completer_model, items, pollVars, filterVars>>

Hide(w) ==
    /\ shown[w]
    /\ shown' = [shown EXCEPT ![w] = FALSE]
    /\ last' = [op |-> "host"]
    /\ UNCHANGED <<window_timer, actions, is_updating, last_search_text, filter_timer,
                   completer_model, items, pollVars, filterVars>>

\* the host repopulates a combo box
SetItems(c, L) ==
    /\ L # items[c]
    /\ items' = [items EXCEPT ![c] = L]
    /\ current_index' = [current_index EXCEPT ![c] = IF L = <<>> THEN -1 ELSE 0]
    /\ last' = [op |-> "host"]
    /\ UNCHANGED <<window_timer, actions, is_updating, last_search_text, filter_timer,
                   completer_model, shown, pollVars, popup, text, timer_started_by, signals>>

\* line_edit.textChanged -> on_text_changed(), the user having typed t into c
TextChanged(c, t) ==
    /\ wired[c] > 0
    /\ signals < MaxSignals
    /\ signals' = signals + 1
    /\ t # text[c]
    /\ text' = [text EXCEPT ![c] = t]
    /\ filter_timer' = OnTextChanged(is_updating)
    /\ timer_started_by' = IF ~is_updating THEN c ELSE timer_started_by
    /\ last' = [op |-> "on_text_changed", combo |-> c, ran |-> ~is_updating]
    /\ UNCHANGED <<window_timer, actions, is_updating, last_search_text, completer_model,
                   pollVars, hostVars, popup, current_index>>

\* self._filter_timer.timeout -> safe_filter() of the combo box the timer was
\* connected to; the timer is single-shot
FilterTimerTimeout ==
    /\ filter_timer.active
    /\ LET c == filter_timer.owner
           r == SafeFilter(c)
       IN  /\ last_search_text' = r.last_search_text
           /\ completer_model' = [completer_model EXCEPT ![c] = r.model]
           /\ popup' = [popup EXCEPT ![c] = r.popup]
           /\ last' = [op |-> "timeout", combo |-> c, ran |-> ~is_updating]
    /\ filter_timer' = [filter_timer EXCEPT !.active = FALSE]
    /\ UNCHANGED <<window_timer, actions, is_updating, pollVars, hostVars, text,
                   current_index, timer_started_by, signals>>

\* line_edit.editingFinished -> safe_filter()
EditingFinished(c) ==
    /\ wired[c] > 0
    /\ signals < MaxSignals
    /\ signals' = signals + 1
    /\ LET r == SafeFilter(c)
       IN  /\ last_search_text' = r.last_search_text
           /\ completer_model' = [completer_model EXCEPT ![c] = r.model]
           /\ popup' = [popup EXCEPT ![c] = r.popup]
    /\ last' = [op |-> "editingFinished", combo |-> c, ran |-> ~is_updating]
    /\ UNCHANGED <<window_timer, actions, is_updating, filter_timer, pollVars, hostVars,
                   text, current_index, timer_started_by>>

\* completer.activated -> on_completer_activated(t), t picked from c's completer;
\* setText runs on_text_changed while self._is_updating is True
CompleterActivated(c, t) ==
    /\ wired[c] > 0
    /\ signals < MaxSignals
    /\ signals' = signals + 1
    /\ t \in Range(completer_model[c])
    /\ IF t \in Range(original_items[c])
       THEN LET index == IndexOf(original_items[c], t)
            IN  /\ current_index' = [current_index EXCEPT
                                       ![c] = IF index < Len(items[c]) THEN index ELSE -1]
                /\ text' = [text EXCEPT ![c] = t]
                /\ filter_timer' = OnTextChanged(TRUE)
                /\ is_updating' = FALSE
       ELSE UNCHANGED <<current_index, text, filter_timer, is_updating>>
    /\ last' = [op |-> "on_completer_activated", combo |-> c, ran |-> TRUE]
    /\ UNCHANGED <<window_timer, actions, last_search_text, completer_model, pollVars,
                   hostVars, popup, timer_started_by>>

\* combo_box.activated -> on_combo_activated(index), the user having picked the
\* item at index from c's drop-down
ComboActivated(c, index) ==
    /\ wired[c] > 0
    /\ signals < MaxSignals
    /\ signals' = signals + 1
    /\ index \in 0..(Len(items[c]) - 1)
    /\ current_index' = [current_index EXCEPT ![c] = index]
    /\ IF is_updating
       THEN UNCHANGED <<text, filter_timer, is_updating>>
       ELSE /\ text' = [text EXCEPT ![c] = items[c][index + 1]]
            /\ filter_timer' = OnTextChanged(TRUE)
            /\ is_updating' = FALSE
    /\ last' = [op |-> "on_combo_activated", combo |-> c, ran |-> ~is_updating]
    /\ UNCHANGED <<window_timer, actions, last_search_text, completer_model, pollVars,
                   hostVars, popup, timer_started_by>>

\* the poll, the add-on's life cycle and the host's changes to the widget tree
NextPoll ==
    \/ InitGui
    \/ Unload
    \/ Poll
    \/ \E w \in Closable : Show(w)
    \/ \E w \in Closable : Hide(w)
    \/ \E c \in Combos, L \in ItemLists : SetItems(c, L)

\* the signals of the enhanced combo boxes
NextFilter ==
    \/ \E c \in Combos, t \in TypedTexts : TextChanged(c, t)
    \/ FilterTimerTimeout
    \/ \E c \in Combos : EditingFinished(c)
    \/ \E c \in Combos, t \in Range(FullItems) : CompleterActivated(c, t)
    \/ \E c \in Combos, index \in 0..2 : ComboActivated(c, index)

\* the add-on in a host that polls it and changes the widget tree
Spec == Init /\ [][NextPoll]_vars

\* the same, the running QTimer firing again and again
FairSpec == Spec /\ WF_vars(Poll)

\* the add-on and the signals of its combo boxes, in a widget tree that stays
\* as it is and raises nothing
NextSignals ==
    \/ InitGui
    \/ Unload
    \/ QuietPoll
    \/ NextFilter

\* the dialog open and both of its combo boxes populated
InitOpen ==
    /\ Init
    /\ \A w \in Widgets : shown[w]
    /\ \A c \in Combos : items[c] = FullItems

FilterSpec == InitOpen /\ [][NextSignals]_vars

(***************************************************************************)
(* Vocabulary of the properties.                                            *)
(***************************************************************************)
\* the widgets holding combo box c
Containers(c) == {w \in Widgets : c \in Range(FindChildrenCombos(w))}

\* visible and classified as a modeler widget
VisibleModeler(w) == IsVisible(w) /\ IsModelerWidget(w, {})

\* polling runs, c sits in a visible modeler dialog and satisfies the
\* enhancement criteria: more than one item, shouldEnhanceComboBox, not enhanced
Pending(c) ==
    /\ window_timer = "active"
    /\ \E w \in Containers(c) : VisibleModeler(w)
    /\ Len(items[c]) > 1
    /\ ShouldEnhanceComboBox(c, {})
    /\ ~search_enhanced[c]

\* ... and one of those dialogs is not in monitored_widgets
Fresh(c) ==
    /\ Pending(c)
    /\ \E w \in Containers(c) : VisibleModeler(w) /\ w \notin monitored_widgets

\* the last poll swallowed an exception
PollRaised == last.op = "poll" /\ last.faulted

HandlerOps == {"on_text_changed", "timeout", "editingFinished",
               "on_completer_activated", "on_combo_activated"}

\* the items of orig that contain every whitespace-separated term of the
\* trimmed text txt, case-insensitively, in orig's order; all of orig when
\* the trimmed text is empty
MatchingSublist(orig, txt) ==
    LET terms == Range(Split(Strip(txt)))
        matches(item) == \A term \in terms : Contains(Lower(term), Lower(item))
    IN  IF Strip(txt) = <<>> THEN orig ELSE SelectSeq(orig, matches)

(***************************************************************************)
(* C1: enhanceComboBox is invoked at most once for any combo box, and no    *)
(* combo box is wired with the handlers twice, across polls, dialogs hidden *)
(* and shown again, and unload followed by a new initGui.                   *)
(***************************************************************************)
C1_EnhancedAtMostOnce == \A c \in Combos : enhance_calls[c] <= 1 /\ wired[c] <= 1

\* after unload and a second initGui, a poll rescans a dialog whose combo box
\* was enhanced before the unload and still satisfies the criteria: only the
\* _search_enhanced attribute keeps it from being enhanced again
C1_Witness ==
    /\ actions = 2
    /\ last.op = "poll"
    /\ \E c \in Combos :
          /\ enhance_calls[c] = 1 /\ wired[c] = 1
          /\ c \notin enhanced_combos
          /\ Len(items[c]) > 1 /\ ShouldEnhanceComboBox(c, {})
          /\ Containers(c) \cap last.scanned # {}
          /\ ~last.faulted

C3_HandlersDetached == window_timer = "stopped" => last.op \notin HandlerOps

(***************************************************************************)
(* C4: initGui starts the poll; after unload the poll timer is stopped and  *)
(* both sets are empty, and while the timer is not running no poll runs and *)
(* no combo box is enhanced.                                                *)
(***************************************************************************)
C4_PollingLifecycle ==
    /\ [](last.op = "initGui" => window_timer = "active")
    /\ [](last.op = "unload" =>
             window_timer # "active" /\ monitored_widgets = {} /\ enhanced_combos = {})
    /\ [](window_timer = "stopped" => monitored_widgets = {} /\ enhanced_combos = {})
    /\ [][window_timer # "active" /\ last'.op # "initGui" =>
             /\ window_timer' # "active"
             /\ last'.op # "poll"
             /\ enhance_calls' = enhance_calls
             /\ wired' = wired
             /\ search_enhanced' = search_enhanced]_vars

\* unloaded, and the host has since produced a combo box a poll would enhance
C4_Witness ==
    /\ window_timer = "stopped"
    /\ last.op = "host"
    /\ \E c \in Combos :
          /\ \E w \in Containers(c) : VisibleModeler(w)
          /\ Len(items[c]) > 1 /\ ShouldEnhanceComboBox(c, {})
          /\ ~search_enhanced[c]

(***************************************************************************)
(* C5: a text change of an enhanced combo box with no update in progress    *)
(* (re)starts the debounce timer, and when the timer fires safe_filter runs *)
(* for that same combo box, for every enhanced combo box.                   *)
(***************************************************************************)
C5_TimerFiltersSameCombo ==
    /\ (last.op = "on_text_changed" /\ last.ran) =>
           filter_timer.active /\ timer_started_by = last.combo
    /\ last.op = "timeout" => last.combo = timer_started_by

(***************************************************************************)
(* C6: after safe_filter has run for a combo box with the guard clear, its  *)
(* completer's model is exactly the sublist of the captured items matching  *)
(* all terms of the trimmed text, or all captured items if that is empty.   *)
(* Stated for the texts that some captured item matches: when none does,    *)
(* safe_filter hides the popup and leaves the model as it was.              *)
(***************************************************************************)
C6_ModelIsMatchingSublist ==
    LET c == last.combo
    IN  (/\ last.op \in {"timeout", "editingFinished"}
         /\ last.ran
         /\ MatchingSublist(original_items[c], text[c]) # <<>>) =>
            completer_model[c] = MatchingSublist(original_items[c], text[c])

(***************************************************************************)
(* C7: an exception raised while classifying a widget or while scanning or  *)
(* enhancing its combo boxes never leaves checkForModelerWidgets: the poll  *)
(* reaches every widget and replaces monitored_widgets with the set it      *)
(* collected.                                                               *)
(***************************************************************************)
C7_FailuresSwallowed ==
    last.op = "poll" =>
        /\ ~last.propagated
        /\ last.visited = Widgets
        /\ monitored_widgets = last.collected
        /\ prev_poll_monitored = last.collected

\* a poll in which a call raised while a dialog's combo boxes were scanned:
\* the dialog was collected, a combo box of it that satisfies the criteria
\* was left unenhanced
C7_Witness ==
    /\ last.op = "poll"
    /\ last.faulted
    /\ \E c \in Combos :
          /\ Len(items[c]) > 1 /\ ShouldEnhanceComboBox(c, {}) /\ ~search_enhanced[c]
          /\ Containers(c) \cap last.scanned # {}

(***************************************************************************)
(* C8 as stated: after a poll monitored_widgets is the set of widgets       *)
(* visible and classified in it, and enhanceModelerWidget was called on     *)
(* exactly those of them that were not in monitored_widgets after the       *)
(* previous poll.                                                           *)
(***************************************************************************)
C8_Original ==
    [][last'.op = "poll" =>
          /\ monitored_widgets' = last'.collected
          /\ last'.scanned = last'.collected \ prev_poll_monitored]_vars

(***************************************************************************)
(* C8 amended: ... on exactly those of them that were not in                *)
(* monitored_widgets when the poll began (what the previous poll left, or   *)
(* nothing if unload has run since).                                        *)
(***************************************************************************)
C8_ScannedIffNotMonitored ==
    [][last'.op = "poll" =>
          /\ monitored_widgets' = last'.collected
          /\ last'.collected \subseteq {w \in Widgets : VisibleModeler(w)}
          /\ ~last'.faulted => last'.collected = {w \in Widgets : VisibleModeler(w)}
          /\ last'.scanned = last'.collected \ monitored_widgets]_vars

\* a poll that scanned one dialog and passed over another that had stayed
\* visible
C8_Witness ==
    /\ last.op = "poll"
    /\ last.scanned # {}
    /\ last.collected \ last.scanned # {}

====
